---- MODULE Spec2Model ----
(***************************************************************************)
(* Model of src/ui/help_window.rs: the help-text pipeline of tere.         *)
(*   strip_markup_and_extract_bold_positions  (the markup stripper)        *)
(*   stylize_wrapped_lines                    (the stylizer)               *)
(*   get_justified_keyboard_shortcuts_table   (the table justifier)        *)
(* Strings are sequences of one-character strings; Option<T> is <<>> for   *)
(* None and <<x>> for Some(x).                                             *)
(***************************************************************************)
EXTENDS Integers, Sequences, FiniteSets, TLC

VARIABLES
  pc,                     \* which function is running
  \* strip_markup_and_extract_bold_positions
  text, pos, bold_toggle_locs, help_string_no_markup, prev_char,
  parsing_heading, strip_counter,
  \* stylize_wrapped_lines
  lines, locs, iter_pos, next_toggle_loc, counter, res, bold,
  line_no, char_no, line_chunks, cur_chunk,
  \* get_justified_keyboard_shortcuts_table
  keyboard_shortcuts, first_column_width, justified, row_i, emitted

stripVars == <<text, pos, bold_toggle_locs, help_string_no_markup, prev_char,
               parsing_heading, strip_counter>>
stylizeVars == <<lines, locs, iter_pos, next_toggle_loc, counter, res, bold,
                 line_no, char_no, line_chunks, cur_chunk>>
tableVars == <<keyboard_shortcuts, first_column_width, justified, row_i, emitted>>
vars == <<pc, stripVars, stylizeVars, tableVars>>

----------------------------------------------------------------------------
(* Bounds of the explored inputs                                           *)
MaxTextLen == 5
MaxLines == 2
MaxLineLen == 2
MaxToggles == 2
MaxRows == 3

None == <<>>
Some(x) == <<x>>

NL == "\n"
\* the backtick character; TLA+ strings cannot hold one, so it is written '
BT == "'"

RECURSIVE SeqsUpTo(_, _)
SeqsUpTo(S, n) ==
  IF n = 0 THEN {<<>>}
  ELSE LET prev == SeqsUpTo(S, n - 1) IN
       prev \cup {Append(s, x) : s \in {t \in prev : Len(t) = n - 1}, x \in S}

Range(s) == {s[i] : i \in 1..Len(s)}

RECURSIVE Concat(_)
Concat(ss) == IF ss = <<>> THEN <<>> ELSE Head(ss) \o Concat(Tail(ss))

----------------------------------------------------------------------------
(* The inputs of the two tests of the source file                          *)
TestInput ==
  <<"#", "#", " ", "f", "o", "o", " ", "b", "a", "r", "\n", "\n", "l", "o",
    "r", "e", "m", " ", "i", "p", "s", "u", "m", " ", BT, "d", "o", "l", "o",
    "r", BT, " ", "s", "i", "t", " ", "a", "m", "e", "t">>
TestPlain ==
  <<"f", "o", "o", " ", "b", "a", "r", "\n", "\n", "l", "o", "r", "e", "m",
    " ", "i", "p", "s", "u", "m", " ", "d", "o", "l", "o", "r", " ", "s", "i",
    "t", " ", "a", "m", "e", "t">>
TestLocs == <<0, 7, 21, 26>>
TestLines ==
  << <<"f", "o", "o", " ", "b", "a", "r">>,
     <<>>,
     <<"l", "o", "r", "e", "m", " ", "i", "p", "s", "u", "m", " ", "d", "o",
       "l", "o", "r", " ", "s", "i", "t", " ", "a", "m", "e", "t">> >>

----------------------------------------------------------------------------
(* strip_markup_and_extract_bold_positions                                 *)

\* the second branch of the loop: a space right after the hashes of a heading
IsSkippedSpace_AnySpace(c, heading, prev) == c = " " /\ heading
IsSkippedSpace(c, heading, prev) == c = " " /\ heading /\ prev = Some("#")

\* the offset pushed when a newline closes a heading: the counter before the
\* newline is counted
HeadingCloseLoc_After(cnt) == cnt + 1
HeadingCloseLoc(cnt) == cnt

StripChar ==
  /\ pc = "strip"
  /\ pos < Len(text)
  /\ LET c == text[pos + 1] IN
       /\ IF c = "#" THEN
            /\ parsing_heading' = TRUE
            /\ bold_toggle_locs' =
                 IF ~parsing_heading THEN Append(bold_toggle_locs, strip_counter)
                 ELSE bold_toggle_locs
            /\ UNCHANGED <<strip_counter, help_string_no_markup>>
          ELSE IF IsSkippedSpace(c, parsing_heading, prev_char) THEN
            UNCHANGED <<parsing_heading, bold_toggle_locs, strip_counter,
                        help_string_no_markup>>
          ELSE IF c = NL /\ parsing_heading THEN
            /\ bold_toggle_locs' =
                 Append(bold_toggle_locs, HeadingCloseLoc(strip_counter))
            /\ parsing_heading' = FALSE
            /\ strip_counter' = strip_counter + 1
            /\ help_string_no_markup' = Append(help_string_no_markup, c)
          ELSE IF c = BT THEN
            /\ bold_toggle_locs' = Append(bold_toggle_locs, strip_counter)
            /\ UNCHANGED <<parsing_heading, strip_counter, help_string_no_markup>>
          ELSE
            /\ strip_counter' = strip_counter + 1
            /\ help_string_no_markup' = Append(help_string_no_markup, c)
            /\ UNCHANGED <<parsing_heading, bold_toggle_locs>>
       /\ prev_char' = Some(c)
  /\ pos' = pos + 1
  /\ UNCHANGED <<pc, text, stylizeVars, tableVars>>

----------------------------------------------------------------------------
(* get_formatted_help_text, after the stripper: wrap, then stylize         *)

\* textwrap::wrap at a width no line reaches: the text broken at its newlines
RECURSIVE WrapLines(_)
WrapLines(s) ==
  IF \A i \in 1..Len(s) : s[i] # NL THEN <<s>>
  ELSE LET k == CHOOSE i \in 1..Len(s) :
                  s[i] = NL /\ \A j \in 1..(i - 1) : s[j] # NL
       IN <<SubSeq(s, 1, k - 1)>> \o WrapLines(SubSeq(s, k + 1, Len(s)))

\* Iterator::next on the slice iterator: p items were handed out so far
IterNext(l, p) ==
  IF p < Len(l) THEN [item |-> Some(l[p + 1]), pos |-> p + 1]
  ELSE [item |-> None, pos |-> p]

\* the locals of stylize_wrapped_lines before its loop
StylizeEntry(ls, tl) ==
  /\ lines' = ls
  /\ locs' = tl
  /\ counter' = 0
  /\ iter_pos' = IterNext(tl, 0).pos
  /\ next_toggle_loc' = IterNext(tl, 0).item
  /\ res' = <<>>
  /\ bold' = FALSE
  /\ line_no' = 1
  /\ char_no' = 1
  /\ line_chunks' = <<>>
  /\ cur_chunk' = <<>>

WrapAndStylize ==
  /\ pc = "strip"
  /\ pos = Len(text)
  /\ StylizeEntry(WrapLines(help_string_no_markup), bold_toggle_locs)
  /\ pc' = "stylize"
  /\ UNCHANGED <<stripVars, tableVars>>

----------------------------------------------------------------------------
(* stylize_wrapped_lines                                                   *)

Seg(t, b) == [text |-> t, bold |-> b]

\* the push at a matched toggle: the chunk so far, styled by the flag before
\* the flip
FlushAtToggle_Flipped(chunks, cur, b) == Append(chunks, Seg(cur, ~b))
FlushAtToggle(chunks, cur, b) == Append(chunks, Seg(cur, b))

\* the push after the last character of a line
FlushFinal_Dropped(chunks, cur, b) ==
  IF cur # <<>> /\ b THEN Append(chunks, Seg(cur, b)) ELSE chunks
FlushFinal(chunks, cur, b) ==
  IF cur # <<>> THEN Append(chunks, Seg(cur, b)) ELSE chunks

\* "always turn off bold at the end of the line"
BoldAfterLine_Kept(b) == b
BoldAfterLine(b) == IF b THEN FALSE ELSE b

\* whether the end of the line calls bold_toggle_locs.next()
ResetCallsNext_Never(b) == FALSE
ResetCallsNext(b) == b

StylizeChar ==
  /\ pc = "stylize"
  /\ line_no <= Len(lines)
  /\ char_no <= Len(lines[line_no])
  /\ LET c == lines[line_no][char_no]
         hit == Some(counter) = next_toggle_loc
         nx == IterNext(locs, iter_pos)
     IN
       /\ line_chunks' =
            IF hit THEN FlushAtToggle(line_chunks, cur_chunk, bold)
            ELSE line_chunks
       /\ bold' = IF hit THEN ~bold ELSE bold
       /\ next_toggle_loc' = IF hit THEN nx.item ELSE next_toggle_loc
       /\ iter_pos' = IF hit THEN nx.pos ELSE iter_pos
       /\ cur_chunk' = Append(IF hit THEN <<>> ELSE cur_chunk, c)
  /\ counter' = counter + 1
  /\ char_no' = char_no + 1
  /\ UNCHANGED <<pc, lines, locs, res, line_no, stripVars, tableVars>>

EndOfLine ==
  /\ pc = "stylize"
  /\ line_no <= Len(lines)
  /\ char_no > Len(lines[line_no])
  /\ LET nx == IterNext(locs, iter_pos) IN
       /\ res' = Append(res, FlushFinal(line_chunks, cur_chunk, bold))
       /\ bold' = BoldAfterLine(bold)
       /\ next_toggle_loc' =
            IF ResetCallsNext(bold) THEN nx.item ELSE next_toggle_loc
       /\ iter_pos' = IF ResetCallsNext(bold) THEN nx.pos ELSE iter_pos
  /\ counter' = counter + 1
  /\ line_no' = line_no + 1
  /\ char_no' = 1
  /\ line_chunks' = <<>>
  /\ cur_chunk' = <<>>
  /\ UNCHANGED <<pc, lines, locs, stripVars, tableVars>>

StylizeReturn ==
  /\ pc = "stylize"
  /\ line_no > Len(lines)
  /\ pc' = "done"
  /\ UNCHANGED <<stripVars, stylizeVars, tableVars>>

----------------------------------------------------------------------------
(* get_justified_keyboard_shortcuts_table                                  *)

\* str::split(sep): the fields between the separators, empty ones included
RECURSIVE Split(_, _)
Split(s, sep) ==
  IF \A i \in 1..Len(s) : s[i] # sep THEN <<s>>
  ELSE LET k == CHOOSE i \in 1..Len(s) :
                  s[i] = sep /\ \A j \in 1..(i - 1) : s[j] # sep
       IN <<SubSeq(s, 1, k - 1)>> \o Split(SubSeq(s, k + 1, Len(s)), sep)

\* Iterator::nth(n).unwrap_or("") on the fields of a split
NthOrEmpty(fields, n) == IF n + 1 <= Len(fields) THEN fields[n + 1] ELSE <<>>

\* str::trim
RECURSIVE TrimStart(_)
TrimStart(s) == IF s # <<>> /\ Head(s) = " " THEN TrimStart(Tail(s)) ELSE s
RECURSIVE TrimEnd(_)
TrimEnd(s) ==
  IF s # <<>> /\ s[Len(s)] = " " THEN TrimEnd(SubSeq(s, 1, Len(s) - 1)) ELSE s
Trim(s) == TrimEnd(TrimStart(s))

\* str::starts_with
StartsWith(s, p) == Len(s) >= Len(p) /\ SubSeq(s, 1, Len(p)) = p

\* chars().filter(|c| *c == ch).count()
CountChar(s, ch) == Cardinality({i \in 1..Len(s) : s[i] = ch})

\* " ".repeat(n)
Spaces(n) == [k \in 1..n |-> " "]

SetMax(S) == CHOOSE m \in S : \A x \in S : x <= m

\* the fallback of .max().unwrap_or(10)
DefaultWidth == 10

\* the widest second field of any line of the block, the divider's included
FirstColumnWidth(ls) ==
  IF ls = <<>> THEN DefaultWidth
  ELSE SetMax({Len(NthOrEmpty(Split(ls[i], "|"), 1)) : i \in 1..Len(ls)})

\* the padding between the two columns of a row
Padding_NoExtra(width, extra_len, action_len) == width + 2 - action_len
Padding(width, extra_len, action_len) == width + extra_len + 2 - action_len

\* "skip markdown table formatting row"
IsDividerRow(action) == StartsWith(action, <<":", "-", "-">>)

ComputeWidth ==
  /\ pc = "table_width"
  /\ first_column_width' = FirstColumnWidth(keyboard_shortcuts)
  /\ pc' = "table_rows"
  /\ UNCHANGED <<keyboard_shortcuts, justified, row_i, emitted,
                 stripVars, stylizeVars>>

JustifyRow ==
  /\ pc = "table_rows"
  /\ row_i < Len(keyboard_shortcuts)
  /\ LET cols == Split(keyboard_shortcuts[row_i + 1], "|")
         action0 == Trim(cols[2])
         shortcut0 == Trim(cols[3])
         action == IF row_i = 0 THEN <<BT>> \o action0 \o <<BT>> ELSE action0
         shortcut == IF row_i = 0 THEN <<BT>> \o shortcut0 \o <<BT>>
                     ELSE shortcut0
         extra_len == CountChar(action, BT)
         padding == Padding(first_column_width, extra_len, Len(action))
     IN
       IF IsDividerRow(action0) THEN UNCHANGED <<justified, emitted>>
       ELSE
         /\ justified' =
              justified \o action \o Spaces(padding) \o shortcut \o <<NL>>
         /\ emitted' = Append(emitted, [i |-> row_i, action |-> action,
                                        padding |-> padding,
                                        shortcut |-> shortcut])
  /\ row_i' = row_i + 1
  /\ UNCHANGED <<pc, keyboard_shortcuts, first_column_width,
                 stripVars, stylizeVars>>

TableReturn ==
  /\ pc = "table_rows"
  /\ row_i = Len(keyboard_shortcuts)
  /\ justified' = Append(justified, NL)
  /\ pc' = "table_done"
  /\ UNCHANGED <<keyboard_shortcuts, first_column_width, row_i, emitted,
                 stripVars, stylizeVars>>

----------------------------------------------------------------------------
(* Initial states                                                          *)

StripIdle ==
  /\ text = <<>>
  /\ pos = 0
  /\ bold_toggle_locs = <<>>
  /\ help_string_no_markup = <<>>
  /\ prev_char = None
  /\ parsing_heading = FALSE
  /\ strip_counter = 0

StylizeIdle ==
  /\ lines = <<>>
  /\ locs = <<>>
  /\ iter_pos = 0
  /\ next_toggle_loc = None
  /\ counter = 0
  /\ res = <<>>
  /\ bold = FALSE
  /\ line_no = 1
  /\ char_no = 1
  /\ line_chunks = <<>>
  /\ cur_chunk = <<>>

TableIdle ==
  /\ keyboard_shortcuts = <<>>
  /\ first_column_width = 0
  /\ justified = <<>>
  /\ row_i = 0
  /\ emitted = <<>>

\* the markup alphabet plus one ordinary character
MarkupChars == {"#", BT, " ", NL, "a"}
Texts == SeqsUpTo(MarkupChars, MaxTextLen) \cup {TestInput}

\* get_formatted_help_text from the call of the stripper on
InitPipeline ==
  /\ pc = "strip"
  /\ text \in Texts
  /\ pos = 0
  /\ bold_toggle_locs = <<>>
  /\ help_string_no_markup = <<>>
  /\ prev_char = None
  /\ parsing_heading = FALSE
  /\ strip_counter = 0
  /\ StylizeIdle
  /\ TableIdle

NextPipeline == StripChar \/ WrapAndStylize \/ StylizeChar \/ EndOfLine \/ StylizeReturn

SpecPipeline == InitPipeline /\ [][NextPipeline]_vars

\* stylize_wrapped_lines called on any lines and any toggle list
LineChars == {"a", "b"}
LineTexts == {l \in SeqsUpTo(LineChars, MaxLineLen) :
                \A i \in 1..(Len(l) - 1) : l[i] # l[i + 1]}
LineLists == SeqsUpTo(LineTexts, MaxLines)
\* the counter's last value over ls: no offset beyond it can ever be matched
LastCount(ls) == Len(Concat(ls)) + Len(ls)
ToggleLists(ls) == SeqsUpTo(0..LastCount(ls), MaxToggles)

InitStylize ==
  /\ pc = "stylize"
  /\ StripIdle
  /\ TableIdle
  /\ \/ lines \in LineLists /\ locs \in ToggleLists(lines)
     \/ lines = TestLines /\ locs = TestLocs
  /\ counter = 0
  /\ iter_pos = IterNext(locs, 0).pos
  /\ next_toggle_loc = IterNext(locs, 0).item
  /\ res = <<>>
  /\ bold = FALSE
  /\ line_no = 1
  /\ char_no = 1
  /\ line_chunks = <<>>
  /\ cur_chunk = <<>>

NextStylize == StylizeChar \/ EndOfLine \/ StylizeReturn

SpecStylize == InitStylize /\ [][NextStylize]_vars

\* get_justified_keyboard_shortcuts_table on a block of "|action|shortcut|"
\* lines; the cells are the text between the pipes
ActionCells ==
  { <<"a">>,
    <<" ", "a", " ">>,
    <<" ", "a", "b", " ", " ">>,
    <<" ", BT, "a", BT, " ">>,
    <<":", "-", "-">>,
    <<" ", ":", "-", "-", "-", "-", "-", " ">> }
ShortcutCells == { <<" ", "k", " ">>, <<":", "-", "-">> }
TableLines ==
  {<<"|">> \o a \o <<"|">> \o k \o <<"|">> : a \in ActionCells, k \in ShortcutCells}

InitTable ==
  /\ pc = "table_width"
  /\ StripIdle
  /\ StylizeIdle
  /\ keyboard_shortcuts \in SeqsUpTo(TableLines, MaxRows)
  /\ first_column_width = 0
  /\ justified = <<>>
  /\ row_i = 0
  /\ emitted = <<>>

NextTable == ComputeWidth \/ JustifyRow \/ TableReturn

SpecTable == InitTable /\ [][NextTable]_vars

----------------------------------------------------------------------------
(* Properties of stylize_wrapped_lines, under SpecStylize                  *)

InStylizer == pc \in {"stylize", "done"}

\* the loop over the characters of the current line has ended, the code after
\* it has not run yet
AtEol == pc = "stylize" /\ line_no <= Len(lines) /\ char_no > Len(lines[line_no])
\* the next character of the current line is about to be read
AtChar == pc = "stylize" /\ line_no <= Len(lines) /\ char_no <= Len(lines[line_no])

\* the number of toggles the cursor has moved past: the pending toggle, if any,
\* is locs[Consumed + 1]
Consumed == IF next_toggle_loc = None THEN Len(locs) ELSE iter_pos - 1

SegTexts(chunks) == [j \in 1..Len(chunks) |-> chunks[j].text]

\* C1: every line starts with the bold flag false: the first segment of a
\* non-empty styled line is plain, a segment is bold only if a toggle was
\* matched earlier in the same line (it is not the line's first segment), and
\* the flag is false whenever a new line starts, in particular after a line
\* that ended inside a bold span.
C1_LinesStartPlain ==
  InStylizer =>
    /\ \A k \in 1..Len(res) : \A j \in 1..Len(res[k]) : res[k][j].bold => j > 1
    /\ \A j \in 1..Len(line_chunks) : line_chunks[j].bold => j > 1
    /\ bold => line_chunks # <<>>
    /\ char_no = 1 => ~bold

\* a line that ended inside a bold span, followed by a line with text
C1_Witness ==
  /\ InStylizer
  /\ Len(res) >= 2
  /\ res[1] # <<>> /\ res[1][Len(res[1])].bold
  /\ res[2] # <<>> /\ ~res[2][1].bold

\* C2: one styled line per input line, in order, and the texts of the segments
\* of styled line i, concatenated, are input line i; while a line is being
\* read, the segments so far and the open chunk are the part already read.
C2_RoundTrip ==
  InStylizer =>
    /\ Len(res) = line_no - 1
    /\ \A k \in 1..Len(res) : Concat(SegTexts(res[k])) = lines[k]
    /\ line_no <= Len(lines) =>
         Concat(SegTexts(line_chunks)) \o cur_chunk
           = SubSeq(lines[line_no], 1, char_no - 1)
    /\ pc = "done" => Len(res) = Len(lines)

\* a finished run over two lines, one of them cut into several segments by
\* toggles
C2_Witness ==
  /\ pc = "done"
  /\ Len(lines) = 2
  /\ \E k \in 1..Len(res) :
       /\ Len(res[k]) >= 2
       /\ res[k][1].text # <<>>
       /\ res[k][2].text # <<>>

TestStyled ==
  << << Seg(<<>>, FALSE), Seg(<<"f", "o", "o", " ", "b", "a", "r">>, TRUE) >>,
     <<>>,
     << Seg(<<"l", "o", "r", "e", "m", " ", "i", "p", "s", "u", "m", " ">>, FALSE),
        Seg(<<"d", "o", "l", "o", "r">>, TRUE),
        Seg(<<" ", "s", "i", "t", " ", "a", "m", "e", "t">>, FALSE) >> >>

\* C4: when the counter equals the pending toggle offset at a character, the
\* text accumulated so far in the line (possibly empty) is emitted as a segment
\* with the flag as it was, the flag flips, the cursor advances by one, and the
\* character starts the next segment; the lines and offsets of
\* test_stylize_wrapped_lines give the segments the test expects.
C4_FlushAtToggle ==
  /\ [][(AtChar /\ Some(counter) = next_toggle_loc /\ char_no' = char_no + 1) =>
          /\ line_chunks' = Append(line_chunks, [text |-> cur_chunk, bold |-> bold])
          /\ bold' = ~bold
          /\ Consumed' = Consumed + 1
          /\ cur_chunk' = <<lines[line_no][char_no]>>
          /\ counter' = counter + 1]_vars
  /\ []((pc = "done" /\ lines = TestLines /\ locs = TestLocs) => res = TestStyled)

\* a toggle was matched in the middle of a line, after some text
C4_Witness ==
  /\ pc = "stylize"
  /\ line_chunks # <<>>
  /\ line_chunks[1].text # <<>>
  /\ cur_chunk # <<>>

\* C6, as the specification states it: the end-of-line reset of the bold flag
\* leaves the toggle cursor where it was.
C6_ResetKeepsCursor ==
  [][(AtEol /\ bold /\ line_no' = line_no + 1) =>
       /\ ~bold'
       /\ next_toggle_loc' = next_toggle_loc
       /\ iter_pos' = iter_pos]_vars

\* C6, amended: at the end of a line with the bold flag true the flag is forced
\* to false and the toggle cursor advances by one: the pending toggle, if there
\* is one, is consumed, and the toggle after it is pending when the next line
\* starts. With the flag false the cursor does not move.
C6_ResetConsumesToggle ==
  [][(AtEol /\ line_no' = line_no + 1) =>
       IF bold
       THEN /\ ~bold'
            /\ Consumed' = IF Consumed < Len(locs) THEN Consumed + 1 ELSE Consumed
            /\ next_toggle_loc' = IF Consumed + 2 <= Len(locs)
                                  THEN Some(locs[Consumed + 2]) ELSE None
       ELSE /\ ~bold'
            /\ Consumed' = Consumed
            /\ next_toggle_loc' = next_toggle_loc]_vars

\* the second line starts after one flip and one reset in the first line
C6_Witness ==
  /\ pc = "stylize"
  /\ line_no = 2 /\ char_no = 1
  /\ res[1] # <<>> /\ res[1][Len(res[1])].bold
  /\ Consumed = 2

\* C9: whenever an even number of toggles has been consumed (by flips and by
\* end-of-line resets) the bold flag is false.
C9_Parity == InStylizer => (Consumed % 2 = 0 => ~bold)

\* a finished run in which one flip and one reset consumed two toggles
C9_Witness ==
  /\ pc = "done"
  /\ Len(res) = 2
  /\ Len(res[1]) = 2 /\ res[1][2].bold
  /\ Consumed = 2
  /\ ~bold

----------------------------------------------------------------------------
(* Properties of strip_markup_and_extract_bold_positions and of the        *)
(* pipeline from it to the stylizer, under SpecPipeline                    *)

StripDone == pc # "strip" \/ pos = Len(text)

\* character i of t is copied to the output: it is no '#', no backtick and no
\* space right after a '#'
Kept(t, i) ==
  /\ t[i] \notin {"#", BT}
  /\ ~(t[i] = " " /\ i > 1 /\ t[i - 1] = "#")
\* a heading is open when character i is read: a '#' before it on the same line
InHeading(t, i) ==
  \E j \in 1..(i - 1) : t[j] = "#" /\ \A k \in (j + 1)..(i - 1) : t[k] # NL
\* character i is a marker that emits a toggle
Emits(t, i) ==
  \/ t[i] = BT
  \/ t[i] = "#" /\ ~InHeading(t, i)
  \/ t[i] = NL /\ InHeading(t, i)
KeptBefore(t, i) == Cardinality({j \in 1..(i - 1) : Kept(t, j)})
EmitsBefore(t, i) == Cardinality({j \in 1..(i - 1) : Emits(t, j)})
ExpectedPlain(t) ==
  [k \in 1..KeptBefore(t, Len(t) + 1) |->
     t[CHOOSE i \in 1..Len(t) : Kept(t, i) /\ KeptBefore(t, i) = k - 1]]
ExpectedToggles(t) ==
  [k \in 1..EmitsBefore(t, Len(t) + 1) |->
     KeptBefore(t, CHOOSE i \in 1..Len(t) : Emits(t, i) /\ EmitsBefore(t, i) = k - 1)]

\* C3: the stripper returns the input without its '#', its backticks and the
\* spaces that directly follow a '#', everything else in order, and one toggle
\* per first '#' of a heading, per newline ending a heading and per backtick,
\* whose value is the number of characters written before the marker; the input
\* of test_strip_markup gives the text and the toggles [0, 7, 21, 26] the test
\* expects.
C3_StripResult ==
  StripDone =>
    /\ help_string_no_markup = ExpectedPlain(text)
    /\ bold_toggle_locs = ExpectedToggles(text)
    /\ text = TestInput =>
         help_string_no_markup = TestPlain /\ bold_toggle_locs = TestLocs

\* the stripper has finished a text with a heading, a swallowed space and a
\* backtick
C3_Witness ==
  /\ StripDone
  /\ text # TestInput
  /\ \E i \in 2..Len(text) : text[i] = " " /\ text[i - 1] = "#"
  /\ \E i \in 1..Len(text) : text[i] = NL /\ InHeading(text, i)
  /\ \E i \in 1..Len(text) : text[i] = BT

\* C7, as the specification states it: the toggle list of the stripper is
\* strictly ascending.
C7_StrictlyAscending ==
  \A i \in 1..(Len(bold_toggle_locs) - 1) :
    bold_toggle_locs[i] < bold_toggle_locs[i + 1]

\* the index in t of its k-th newline
NthNewline(t, k) ==
  CHOOSE i \in 1..Len(t) :
    t[i] = NL /\ Cardinality({j \in 1..(i - 1) : t[j] = NL}) = k - 1

\* the stylizer is at the end of a line that a line break follows
AtLineBreak == AtEol /\ line_no < Len(lines)

\* C8, as the specification states it: the counter value at the end-of-line
\* increment, the position of the newline between two lines, is no toggle
\* offset of the list.
C8_NewlineNeverToggle == AtLineBreak => counter \notin Range(locs)

\* C8, amended: the position of the newline between two lines is a toggle
\* offset exactly when that newline closes a heading or directly follows a
\* backtick in the unstripped text; in particular the closing toggle of every
\* heading sits on the position of the heading's newline.
C8_NewlineToggleIffMarker ==
  AtLineBreak =>
    LET n == NthNewline(text, line_no) IN
      counter \in Range(locs)
        <=> (InHeading(text, n) \/ (n > 1 /\ text[n - 1] = BT))

\* the stylizer at the end of a heading line, on the heading's closing toggle
C8_Witness ==
  /\ AtLineBreak
  /\ InHeading(text, NthNewline(text, line_no))
  /\ next_toggle_loc = Some(counter)

\* every heading of t ends with a newline
HeadingsClosed(t) == ~InHeading(t, Len(t) + 1)
\* every line of t holds an even number of backticks
EvenDelimiters(t) ==
  \A s \in 1..(Len(t) + 1) :
    (s = 1 \/ t[s - 1] = NL) =>
      LET e == CHOOSE i \in s..(Len(t) + 1) :
                 /\ i = Len(t) + 1 \/ t[i] = NL
                 /\ \A j \in s..(i - 1) : t[j] # NL
      IN Cardinality({i \in s..(e - 1) : t[i] = BT}) % 2 = 0

\* C10, as stated: for a text whose headings all end with a newline and whose
\* lines all hold an even number of emphasis delimiters, the pending toggle
\* offset is never smaller than the counter, and every toggle has been consumed
\* once the last line is processed.
C10_CursorNeverStalls ==
  (InStylizer /\ HeadingsClosed(text) /\ EvenDelimiters(text)) =>
    /\ next_toggle_loc # None => next_toggle_loc[1] >= counter
    /\ pc = "done" => Consumed = Len(locs)

----------------------------------------------------------------------------
(* Properties of get_justified_keyboard_shortcuts_table, under SpecTable   *)

InTableLoop == pc \in {"table_rows", "table_done"}

\* the text of a table line between its first and its second pipe
RawAction(line) ==
  LET p1 == CHOOSE i \in 1..Len(line) :
              line[i] = "|" /\ \A j \in 1..(i - 1) : line[j] # "|"
      p2 == CHOOSE i \in (p1 + 1)..Len(line) :
              line[i] = "|" /\ \A j \in (p1 + 1)..(i - 1) : line[j] # "|"
  IN SubSeq(line, p1 + 1, p2 - 1)
\* the action cell of the line starts, after its leading blanks, with ":--"
IsDivider(line) ==
  LET a == RawAction(line) IN
    \E k \in 1..(Len(a) - 2) :
      /\ \A j \in 1..(k - 1) : a[j] = " "
      /\ a[k] = ":" /\ a[k + 1] = "-" /\ a[k + 2] = "-"
WithoutBackticks(s) == SelectSeq(s, LAMBDA c : c # BT)
EmittedText(e) == e.action \o Spaces(e.padding) \o e.shortcut \o <<NL>>

\* C5: no row is emitted for a divider row, yet firstColumnWidth is the
\* greatest raw action-cell length over all rows, the divider included; in
\* every emitted row the padding is non-negative and the action cell without
\* its backticks plus the padding is firstColumnWidth + 2 characters long, so
\* the shortcut cell starts at the same column in every row, the header row
\* with its added backticks included.
C5_TableJustified ==
  InTableLoop =>
    /\ keyboard_shortcuts # <<>> =>
         /\ \A i \in 1..Len(keyboard_shortcuts) :
              Len(RawAction(keyboard_shortcuts[i])) <= first_column_width
         /\ \E i \in 1..Len(keyboard_shortcuts) :
              Len(RawAction(keyboard_shortcuts[i])) = first_column_width
    /\ {emitted[k].i : k \in 1..Len(emitted)}
         = {i \in 0..(row_i - 1) : ~IsDivider(keyboard_shortcuts[i + 1])}
    /\ \A k \in 1..(Len(emitted) - 1) : emitted[k].i < emitted[k + 1].i
    /\ \A k \in 1..Len(emitted) :
         /\ emitted[k].padding >= 0
         /\ Len(WithoutBackticks(emitted[k].action)) + emitted[k].padding
              = first_column_width + 2
    /\ justified = Concat([k \in 1..Len(emitted) |-> EmittedText(emitted[k])])
                     \o (IF pc = "table_done" THEN <<NL>> ELSE <<>>)

\* a finished table whose widest action cell is the divider's, with a header
\* row and a further row emitted
C5_Witness ==
  /\ pc = "table_done"
  /\ Len(emitted) = 2
  /\ emitted[1].i = 0
  /\ \E i \in 1..Len(keyboard_shortcuts) :
       /\ IsDivider(keyboard_shortcuts[i])
       /\ Len(RawAction(keyboard_shortcuts[i])) = first_column_width
       /\ \A j \in 1..Len(keyboard_shortcuts) :
            j # i => Len(RawAction(keyboard_shortcuts[j])) < first_column_width

====
